---- MODULE Spec2Model ----
(***************************************************************************)
(* Model of the feed middleware: the get-feed edge function (strategy      *)
(* dispatch over custom / third_party / chronological) and the feed        *)
(* screen that pages through it.                                           *)
(***************************************************************************)
EXTENDS Integers, Sequences, FiniteSets, TLC

(* ------------------------------ bounds --------------------------------- *)
MaxPosts == 2      \* rows in public.posts
MaxLimit == 2      \* largest limit a caller supplies explicitly
MaxOffset == 1     \* largest offset a caller supplies explicitly
MaxLikes == 1      \* rows in public.likes per post
MaxRequests == 4   \* page requests the feed screen issues in one run
MaxComments == 1   \* rows in public.comments per post
MaxRows == 2
MaxAttempts == 3
MaxInstant == 2    \* the clock runs over 0..MaxInstant half hours

(* --------------------------- program constants ------------------------- *)
DefaultLimit == 20
DefaultOffset == 0
PAGE_SIZE == 10
SecondsPerHour == 3600
WeightUnit == 2    \* weights are numerics counted in halves: 0.5 is 1, 1.0 is 2

(* An optional value: <<>> is JS undefined / a missing key, <<v>> is v.    *)
Opt(S) == {<<>>} \cup {<<v>> : v \in S}
Has(o) == o # <<>>
Val(o) == o[1]

Max(a, b) == IF a >= b THEN a ELSE b
Min(a, b) == IF a <= b THEN a ELSE b

LimitInputs == -1..MaxLimit
OffsetInputs == -1..MaxOffset

(* ------------------------------ the store ------------------------------ *)
\* Post ids; a post's id is also its created_at rank (larger = newer).
PostIds == 1..MaxPosts

\* Strings a user can have stored under preferences.algorithm_id.
AlgorithmIds == {"custom", "third_party", "chronological", "nonexistent",
                 "constructor", "toString", "hasOwnProperty", "__proto__"}

\* Strings a user can have stored under preferences.third_party_endpoint.
ValidEndpoint == "https://ranker.example/feed"
MalformedEndpoint == "not a url"
Endpoints == {"", MalformedEndpoint, ValidEndpoint}

\* preferences jsonb of one user_feed_preferences row.
Preferences == [algorithm_id : Opt(AlgorithmIds), third_party_endpoint : Opt(Endpoints)]
EmptyPreferences == [algorithm_id |-> <<>>, third_party_endpoint |-> <<>>]

\* WHATWG URL parsing of the stored endpoint: TRUE iff new URL(s) succeeds.
UrlParses(s) == s = ValidEndpoint

(* --------------------------- get-feed state ---------------------------- *)
VARIABLES
  pc,          \* position of the handler in the current request
  posts,       \* number of rows in public.posts (ids 1..posts)
  likes,       \* like_agg: post id -> count of rows in public.likes
  token,       \* Authorization header of the request: missing / invalid / valid
  rawLimit,    \* the limit value that reached the handler last (<<>> = none supplied)
  rawOffset,   \* the offset value that reached the handler last
  limit,       \* let limit
  offset,      \* let offset
  prefRow,     \* prefRow?.preferences as read (<<>> = no row or read error)
  prefErr,     \* prefErr is set
  algorithmId, \* const algorithmId
  ran,         \* sequence of strategies invoked on this request
  prefReads,   \* reads of user_feed_preferences on this request
  postQueries, \* queries against posts (rpc or select) on this request
  outbound,    \* outbound fetch() calls on this request
  fetchOutcome,\* how the awaited fetch() settled ("" = not settled)
  sent,        \* the outbound request passed to fetch() (<<>> = none)
  fetchBody,   \* the body the third-party endpoint answered with
  response     \* what the handler returned

serverVars == <<pc, posts, likes, token, rawLimit, rawOffset, limit, offset, prefRow, prefErr,
                algorithmId, ran, prefReads, postQueries, outbound, fetchOutcome,
                sent, fetchBody, response>>

(* --------------------- ranking function state ------------------------- *)
VARIABLES
  created,     \* posts.created_at: post id -> epoch seconds
  comments,    \* comment_agg: post id -> count of rows in public.comments
  followed,    \* follow_flags: post id -> the requester follows the author
  prefs,       \* prefs jsonb as the function selects it (<<>> = no row)
  now,         \* now(), epoch seconds
  weights,     \* like_weight, comment_weight, follower_weight, recency_weight
  phase,       \* page requests made so far: start / first / second
  call,        \* the latest call: p_limit, p_offset and its now()
  returned,    \* rows the latest get_custom_ranked_feed call returned
  chrono,      \* post ids the chronological query returned for the same window
  first        \* call, rows and chrono of the first page request

rankVars == <<created, comments, followed, prefs, now, weights, phase, call, returned,
              chrono, first>>

NoResponse == [kind |-> "none", status |-> 0, error |-> "", algorithm |-> "", posts |-> <<>>]

\* function json(body, status = 200)
json(error, algorithm, rows, status) ==
  [kind |-> "json", status |-> status, error |-> error, algorithm |-> algorithm, posts |-> rows]

\* A value returned from the handler that is not a Response.
NotAResponse(what) ==
  [kind |-> what, status |-> 0, error |-> "", algorithm |-> "", posts |-> <<>>]

(* ------------------------- request parsing ----------------------------- *)
\* parseInt(url.searchParams.get(name) ?? dflt, 10) for a decimal parameter.
parseInt(param, dflt) == IF Has(param) THEN Val(param) ELSE dflt

\* let limit = Math.max(parseInt(...), 0), then the JSON body override.
\* body = <<>> when the method is GET or req.json() throws.
ParseWindowValue(param, dflt, body, field) ==
  LET fromQuery == Max(parseInt(param, dflt), 0)
  IN  IF Has(body) /\ Has(Val(body)[field]) THEN Max(Val(Val(body)[field]), 0)
      ELSE fromQuery

\* The value the caller supplied for a window field, before clamping.
SuppliedValue(param, body, field) ==
  IF Has(body) /\ Has(Val(body)[field]) THEN Val(body)[field] ELSE param

Bodies == [limit : Opt(LimitInputs), offset : Opt(OffsetInputs)]

(* ---------------------------- strategies ------------------------------- *)
\* The posts table ordered by created_at descending.
ChronologicalOrder == [i \in 1..posts |-> posts + 1 - i]

\* Rows from..to (0-based, inclusive) of a result set: PostgREST .range(from, to).
Range(rows, from, to) == SubSeq(rows, from + 1, Min(to + 1, Len(rows)))

\* .order("created_at", {ascending: false}).range(offset, Math.max(offset + limit - 1, offset))
ChronologicalPage(lim, off) == Range(ChronologicalOrder, off, Max(off + lim - 1, off))

\* Lines 30-33: the declared defaults, in WeightUnit-ths.
DefaultWeights == [like_weight |-> 2, comment_weight |-> 1, follower_weight |-> 2,
                   recency_weight |-> 2]
WeightKeys == DOMAIN DefaultWeights

\* A stored weight: a JSON number (in WeightUnit-ths) or text that is no number.
Number(n) == [kind |-> "number", value |-> n]
NotANumber == [kind |-> "text", value |-> 0]

\* A bug: a key missing from the stored record becomes 0 instead of the default.
LoadWeightNoDefault(p, key, dflt) ==
  IF Has(p) /\ Has(Val(p)[key]) /\ Val(Val(p)[key]).kind = "number"
    THEN Val(Val(p)[key]).value
    ELSE IF Has(p) THEN 0 ELSE dflt

\* Lines 40-53: coalesce((prefs ->> key)::numeric, dflt), the cast error swallowed.
LoadWeight(p, key, dflt) ==
  IF Has(p) /\ Has(Val(p)[key]) /\ Val(Val(p)[key]).kind = "number"
    THEN Val(Val(p)[key]).value
    ELSE dflt

LoadedWeights == [key \in WeightKeys |-> LoadWeight(prefs, key, DefaultWeights[key])]

\* extract(epoch from (now() - b.created_at))
AgeSeconds(i) == now - created[i]

RECURSIVE Gcd(_, _)
Gcd(a, b) == IF b = 0 THEN a ELSE Gcd(b, a % b)

\* The common factor of 3600 and 3600 + seconds, divided out of the fraction.
RecencyGcd(i) == Gcd(SecondsPerHour + AgeSeconds(i), SecondsPerHour)

\* A bug: the age does not enter the recency feature.
RecencyDenNoDecay(i) == SecondsPerHour \div RecencyGcd(i)

\* Line 101: recency_score = 1.0 / (1.0 + seconds / 3600.0)
\*                         = 3600 / (3600 + seconds) = RecencyNum(i) / RecencyDen(i)
RecencyNum(i) == SecondsPerHour \div RecencyGcd(i)
RecencyDen(i) == (SecondsPerHour + AgeSeconds(i)) \div RecencyGcd(i)

\* Lines 119-121, in WeightUnit-ths.
Engagement(i) ==
  LoadedWeights.like_weight * likes[i]
  + LoadedWeights.comment_weight * comments[i]
  + LoadedWeights.follower_weight * (IF followed[i] THEN 1 ELSE 0)

\* A bug: the comment term is left out of the score.
ScoreNumNoComments(i) ==
  (LoadedWeights.like_weight * likes[i]
   + LoadedWeights.follower_weight * (IF followed[i] THEN 1 ELSE 0)) * RecencyDen(i)
  + LoadedWeights.recency_weight * RecencyNum(i)

\* Lines 119-122: final_score(i) = ScoreNum(i) / ScoreDen(i)
ScoreNum(i) == Engagement(i) * RecencyDen(i) + LoadedWeights.recency_weight * RecencyNum(i)
ScoreDen(i) == WeightUnit * RecencyDen(i)

\* A bug: ties in final_score are broken oldest first.
RankedBeforeOldestFirst(a, b) ==
  LET l == ScoreNum(a) * ScoreDen(b)
      r == ScoreNum(b) * ScoreDen(a)
  IN  l > r \/ (l = r /\ created[a] < created[b])

\* order by final_score desc nulls last, created_at desc
RankedBefore(a, b) ==
  LET l == ScoreNum(a) * ScoreDen(b)
      r == ScoreNum(b) * ScoreDen(a)
  IN  l > r \/ (l = r /\ created[a] > created[b])

CustomOrder ==
  [k \in 1..posts |->
     CHOOSE p \in 1..posts : Cardinality({q \in 1..posts : RankedBefore(q, p)}) = k - 1]

\* A bug: the window is closed at both ends.
CustomPageInclusive(p_limit, p_offset) ==
  LET lim == Max(p_limit, 0)
      off == Max(p_offset, 0)
  IN  SubSeq(CustomOrder, off + 1, Min(off + lim + 1, posts))

\* limit greatest(p_limit, 0) offset greatest(p_offset, 0)
CustomPage(p_limit, p_offset) ==
  LET lim == Max(p_limit, 0)
      off == Max(p_offset, 0)
  IN  SubSeq(CustomOrder, off + 1, Min(off + lim, posts))

\* Lines 111-125: the columns of one returned row (media columns left out).
Row(i) ==
  [post_id |-> i, created_at |-> created[i], like_count |-> likes[i],
   comment_count |-> comments[i], is_from_followed |-> followed[i],
   recency_score |-> <<RecencyNum(i), RecencyDen(i)>>,
   final_score |-> <<ScoreNum(i), ScoreDen(i)>>]

\* get_custom_ranked_feed(requesting_user_id, p_limit, p_offset)
RankedFeed(p_limit, p_offset) ==
  LET page == CustomPage(p_limit, p_offset)
  IN  [k \in 1..Len(page) |-> Row(page[k])]

\* Own properties of the strategies object literal.
StrategyNames == {"custom", "third_party", "chronological"}

\* Properties every object literal inherits from Object.prototype.
ObjectPrototypeKeys == {"constructor", "toString", "hasOwnProperty", "__proto__"}

\* strategies[algorithmId] ?? strategies["chronological"]
\* A property read walks the prototype chain; only undefined/null fall through ??.
Exec(id) ==
  IF id \in StrategyNames THEN id
  ELSE IF id \in ObjectPrototypeKeys THEN id
  ELSE "chronological"

(* --------------------------- feed screen state ------------------------ *)
VARIABLES
  mounted,     \* the mount effect has run
  items,       \* useState items: one entry per appended page, the window it came from
  pageOffset,  \* useState offset
  loading,     \* useState loading
  refreshing,  \* useState refreshing
  seenLoading, \* loading as captured by the callbacks of the last render
  seenOffset,  \* offset as captured by the callbacks of the last render
  inflight,    \* get-feed invocations that have not settled
  issued,      \* invocations issued so far
  lastFailed   \* the invocation whose failure was logged last, if the last one to settle failed

feedVars == <<mounted, items, pageOffset, loading, refreshing, seenLoading, seenOffset,
              inflight, issued, lastFailed>>

\* The posts table under row level security, and the last statement sent to it.
VARIABLES
  postRows,    \* public.posts: author_id and text_content of each row
  attempt,     \* the last insert or update and the error the client got back
  attempts     \* statements sent so far

rlsVars == <<postRows, attempt, attempts>>

\* The auth context and the root layout's gate.
VARIABLES
  authUser,    \* the user the auth client holds a session for, if any
  session,     \* useState session of AuthProvider
  isLoading,   \* useState isLoading of AuthProvider
  route,       \* the route the router shows
  gateDeps,    \* the dependency values the gate's effect last ran with
  replaced     \* the route the gate's effect last replaced to, if it did

gateVars == <<authUser, session, isLoading, route, gateDeps, replaced>>

vars == <<serverVars, feedVars, rankVars, rlsVars, gateVars>>

\* The screen before its first effect: the useState initial values.
Unmounted ==
  /\ mounted = FALSE
  /\ items = <<>>
  /\ pageOffset = 0
  /\ loading = FALSE
  /\ refreshing = FALSE
  /\ seenLoading = FALSE
  /\ seenOffset = 0
  /\ inflight = {}
  /\ issued = 0
  /\ lastFailed = <<>>

LoginRoute == "/(auth)/login"
FeedRoute == "/(tabs)/feed"
Routes == {"/", LoginRoute, FeedRoute, "/(tabs)/settings"}

\* The app before AuthProvider's effect has run, nobody signed in, at the root.
SignedOut ==
  /\ authUser = <<>>
  /\ session = <<>>
  /\ isLoading = TRUE
  /\ route = "/"
  /\ gateDeps = <<>>
  /\ replaced = <<>>

Users == {"alice", "bob"}
Texts == {"Hello", "Updated"}

NoAttempt == [op |-> "none", user |-> "alice", post |-> 0, text |-> "Hello",
              before |-> <<>>, error |-> <<>>]

\* An empty posts table and no statement sent.
NoStatements ==
  /\ postRows = <<>>
  /\ attempt = NoAttempt
  /\ attempts = 0

\* No page has been requested from the ranking function.
NoCall == [limit |-> 0, offset |-> 0, at |-> 0]
NoPage == [call |-> NoCall, rows |-> <<>>, chrono |-> <<>>]

Unranked ==
  /\ weights = DefaultWeights
  /\ phase = "start"
  /\ call = NoCall
  /\ returned = <<>>
  /\ chrono = <<>>
  /\ first = NoPage

\* A store of hourly posts without comments or follows, read as soon as the
\* newest post exists, by a user whose preferences carry no weights.
PlainStore ==
  /\ created = [i \in 1..posts |-> i * SecondsPerHour]
  /\ comments = [i \in 1..posts |-> 0]
  /\ followed = [i \in 1..posts |-> FALSE]
  /\ prefs = <<>>
  /\ now = posts * SecondsPerHour

(* ------------------------------ handler -------------------------------- *)
\* No request is being handled.
Idle ==
  /\ pc = "idle"
  /\ token = "missing"
  /\ rawLimit = <<>> /\ rawOffset = <<>>
  /\ limit = 0 /\ offset = 0
  /\ prefRow = <<>>
  /\ prefErr = FALSE
  /\ algorithmId = ""
  /\ ran = <<>>
  /\ prefReads = 0 /\ postQueries = 0 /\ outbound = 0
  /\ fetchOutcome = ""
  /\ sent = <<>>
  /\ fetchBody = <<>>
  /\ response = NoResponse

Init ==
  /\ posts \in 0..MaxPosts
  /\ likes \in [1..posts -> 0..MaxLikes]
  /\ PlainStore
  /\ Unranked
  /\ Idle
  /\ Unmounted
  /\ NoStatements
  /\ SignedOut

\* Lines 25-39: parse the page window and pick up the Authorization header.
Receive ==
  /\ pc = "idle"
  /\ \E tok \in {"missing", "invalid", "valid"},
        qLimit \in Opt(LimitInputs), qOffset \in Opt(OffsetInputs),
        body \in Opt(Bodies) :
       /\ token' = tok
       /\ limit' = ParseWindowValue(qLimit, DefaultLimit, body, "limit")
       /\ offset' = ParseWindowValue(qOffset, DefaultOffset, body, "offset")
       /\ rawLimit' = SuppliedValue(qLimit, body, "limit")
       /\ rawOffset' = SuppliedValue(qOffset, body, "offset")
  /\ pc' = "getUser"
  /\ UNCHANGED <<fetchBody, sent, fetchOutcome, posts, likes, prefRow, prefErr, algorithmId, ran, prefReads, postQueries,
                 outbound, response>>

\* A bug: any presented token is taken for a user.
AuthorizedAnyToken(tok) == tok # "missing"

\* Line 48: !(userErr || !userRes?.user); auth.getUser() yields a user only for
\* a valid JWT and an error for a missing or invalid one.
Authorized(tok) == tok = "valid"

\* Lines 47-54: identify the user or answer 401.
GetUser ==
  /\ pc = "getUser"
  /\ IF Authorized(token)
       THEN /\ pc' = "readPrefs"
            /\ UNCHANGED response
       ELSE /\ pc' = "done"
            /\ response' = json("Unauthorized", "", <<>>, 401)
  /\ UNCHANGED <<fetchBody, sent, fetchOutcome, posts, likes, token, rawLimit, rawOffset, limit, offset, prefRow, prefErr,
                 algorithmId, ran, prefReads, postQueries, outbound>>

\* A bug: the row is used although the read reported an error.
ReadPreferencesDespiteError(row, failed) ==
  IF ~Has(row) THEN EmptyPreferences ELSE Val(row)

\* Line 66: (prefRow?.preferences) ?? {}; the client hands back data = null
\* together with an error.
ReadPreferences(row, failed) ==
  IF failed \/ ~Has(row) THEN EmptyPreferences ELSE Val(row)

\* Line 67: (preferences["algorithm_id"] as string) ?? "chronological"
ResolveAlgorithmId(preferences) ==
  IF Has(preferences.algorithm_id) THEN Val(preferences.algorithm_id)
  ELSE "chronological"

\* Lines 57-67: read the preference row and resolve algorithmId.
\* row = <<>> is "no row"; failed = TRUE is a read error.
ReadPrefs ==
  /\ pc = "readPrefs"
  /\ \E row \in Opt(Preferences), failed \in BOOLEAN :
       LET preferences == ReadPreferences(row, failed)
       IN  /\ prefErr' = failed
           /\ prefRow' = IF failed THEN <<>> ELSE row
           /\ algorithmId' = ResolveAlgorithmId(preferences)
  /\ prefReads' = prefReads + 1
  /\ pc' = "dispatch"
  /\ UNCHANGED <<fetchBody, sent, fetchOutcome, posts, likes, token, rawLimit, rawOffset, limit, offset, ran, postQueries,
                 outbound, response>>

\* Lines 123-124 (and the outer catch, 125-128): pick exec and call it.
Dispatch ==
  /\ pc = "dispatch"
  /\ LET exec == Exec(algorithmId)
     IN  CASE exec \in StrategyNames ->
                /\ ran' = Append(ran, exec)
                /\ pc' = exec
                /\ UNCHANGED response
           [] exec = "constructor" ->       \* Object() returns a plain object
                /\ response' = NotAResponse("object")
                /\ pc' = "done"
                /\ UNCHANGED ran
           [] exec = "toString" ->          \* returns "[object Undefined]"
                /\ response' = NotAResponse("string")
                /\ pc' = "done"
                /\ UNCHANGED ran
           [] OTHER ->                      \* TypeError, caught at line 125
                /\ response' = json("internal_server_error", "", <<>>, 500)
                /\ pc' = "done"
                /\ UNCHANGED ran
  /\ UNCHANGED <<fetchBody, sent, fetchOutcome, posts, likes, token, rawLimit, rawOffset, limit, offset, prefRow, prefErr,
                 algorithmId, prefReads, postQueries, outbound>>

\* Lines 71-82: strategies.custom
Custom ==
  /\ pc = "custom"
  /\ postQueries' = postQueries + 1
  /\ \E error \in BOOLEAN :
       response' = IF error THEN json("ranking_failed", "", <<>>, 500)
                   ELSE json("", "custom", CustomPage(limit, offset), 200)
  /\ pc' = "done"
  /\ UNCHANGED <<fetchBody, sent, fetchOutcome, posts, likes, token, rawLimit, rawOffset, limit, offset, prefRow, prefErr,
                 algorithmId, ran, prefReads, outbound>>

\* Lines 106-120: strategies.chronological
Chronological ==
  /\ pc = "chronological"
  /\ postQueries' = postQueries + 1
  /\ \E error \in BOOLEAN :
       response' = IF error THEN json("chronological_failed", "", <<>>, 500)
                   ELSE json("", "chronological", ChronologicalPage(limit, offset), 200)
  /\ pc' = "done"
  /\ UNCHANGED <<fetchBody, sent, fetchOutcome, posts, likes, token, rawLimit, rawOffset, limit, offset, prefRow, prefErr,
                 algorithmId, ran, prefReads, outbound>>

\* const endpoint = (preferences["third_party_endpoint"] as string) ?? ""
Endpoint ==
  IF Has(prefRow) /\ Has(Val(prefRow).third_party_endpoint)
    THEN Val(Val(prefRow).third_party_endpoint)
    ELSE ""

\* Line 54: userRes.user.id, the user the JWT was issued to.
UserId(tok) == IF tok = "valid" THEN "user-1" ELSE ""

\* A bug: the caller's Authorization header is not forwarded.
OutboundRequestNoAuth(endpoint, userId, lim, off, authHeader) ==
  [endpoint |-> endpoint, user_id |-> userId, limit |-> lim, offset |-> off,
   authorization |-> ""]

\* Lines 89-95: the URL with its three query parameters and the headers.
OutboundRequest(endpoint, userId, lim, off, authHeader) ==
  [endpoint |-> endpoint, user_id |-> userId, limit |-> lim, offset |-> off,
   authorization |-> authHeader]

\* A bug: the emptiness check is dropped.
EndpointMissingUnchecked(endpoint) == FALSE

\* Line 85: !endpoint
EndpointMissing(endpoint) == endpoint = ""

\* Lines 83-95: strategies.third_party up to the fetch() call.
ThirdParty ==
  /\ pc = "third_party"
  /\ IF EndpointMissing(Endpoint)
       THEN /\ response' = json("missing_third_party_endpoint", "", <<>>, 400)
            /\ pc' = "done"
            /\ UNCHANGED <<outbound, sent>>
       ELSE IF ~UrlParses(Endpoint)       \* new URL(endpoint) throws, caught at line 101
         THEN /\ response' = json("third_party_exception", "", <<>>, 500)
              /\ pc' = "done"
              /\ UNCHANGED <<outbound, sent>>
         ELSE /\ outbound' = outbound + 1
              /\ sent' = <<OutboundRequest(Endpoint, UserId(token), limit, offset, token)>>
              /\ pc' = "fetch"
              /\ UNCHANGED response
  /\ UNCHANGED <<fetchBody, fetchOutcome, posts, likes, token, rawLimit, rawOffset, limit, offset, prefRow, prefErr,
                 algorithmId, ran, prefReads, postQueries>>

\* JSON bodies the external ranker may answer with (opaque to the handler).
ThirdPartyBodies == {<<>>, <<1>>}

\* How fetch() can settle: a success status with a JSON body, a success status
\* whose body resp.json() rejects, a non-success status, a rejected promise.
FetchOutcomes == {"ok", "ok_not_json", "not_ok", "throws"}

\* A bug: a non-success status is reported like a transport exception.
ThirdPartyResultNoStatusCheck(outcome, data) ==
  CASE outcome = "ok" -> json("", "third_party", data, 200)
    [] OTHER -> json("third_party_exception", "", <<>>, 500)

\* Lines 96-104: the response built from the settled fetch().
ThirdPartyResult(outcome, data) ==
  CASE outcome = "ok" -> json("", "third_party", data, 200)
    [] outcome = "not_ok" -> json("third_party_failed", "", <<>>, 502)
    [] OTHER -> json("third_party_exception", "", <<>>, 500)

\* Lines 93-104: the awaited fetch() settles.
FetchSettles ==
  /\ pc = "fetch"
  /\ \E outcome \in FetchOutcomes, data \in ThirdPartyBodies :
       /\ fetchOutcome' = outcome
       /\ fetchBody' = data
       /\ response' = ThirdPartyResult(outcome, data)
  /\ pc' = "done"
  /\ UNCHANGED <<sent, posts, likes, token, rawLimit, rawOffset, limit, offset, prefRow, prefErr,
                 algorithmId, ran, prefReads, postQueries, outbound>>

\* The function instance is stateless: the next request starts afresh.
NextRequest ==
  /\ pc = "done"
  /\ pc' = "idle"
  /\ token' = "missing"
  /\ rawLimit' = <<>> /\ rawOffset' = <<>>
  /\ limit' = 0 /\ offset' = 0
  /\ prefRow' = <<>>
  /\ prefErr' = FALSE
  /\ algorithmId' = ""
  /\ ran' = <<>>
  /\ prefReads' = 0 /\ postQueries' = 0 /\ outbound' = 0
  /\ fetchOutcome' = ""
  /\ sent' = <<>>
  /\ fetchBody' = <<>>
  /\ response' = NoResponse
  /\ UNCHANGED <<posts, likes>>

Next ==
  \/ Receive /\ UNCHANGED <<feedVars, rankVars, rlsVars, gateVars>>
  \/ GetUser /\ UNCHANGED <<feedVars, rankVars, rlsVars, gateVars>>
  \/ ReadPrefs /\ UNCHANGED <<feedVars, rankVars, rlsVars, gateVars>>
  \/ Dispatch /\ UNCHANGED <<feedVars, rankVars, rlsVars, gateVars>>
  \/ Custom /\ UNCHANGED <<feedVars, rankVars, rlsVars, gateVars>>
  \/ Chronological /\ UNCHANGED <<feedVars, rankVars, rlsVars, gateVars>>
  \/ ThirdParty /\ UNCHANGED <<feedVars, rankVars, rlsVars, gateVars>>
  \/ FetchSettles /\ UNCHANGED <<feedVars, rankVars, rlsVars, gateVars>>
  \/ NextRequest /\ UNCHANGED <<feedVars, rankVars, rlsVars, gateVars>>

Spec == Init /\ [][Next]_vars

\* The handler's own steps always run on; only the external ranker may stay silent.
HandlerStep ==
  \/ Receive \/ GetUser \/ ReadPrefs \/ Dispatch \/ Custom \/ Chronological \/ ThirdParty

FairSpec == Spec /\ WF_vars(HandlerStep /\ UNCHANGED <<feedVars, rankVars, rlsVars, gateVars>>)

(* ----------------------------- feed screen ----------------------------- *)
\* Lines 45-51: fetchPage(reset) up to the awaited invoke, run from the
\* callbacks of the last render (which see seenLoading and seenOffset).
FetchPage(reset) ==
  IF seenLoading
    THEN UNCHANGED <<loading, inflight, issued>>
    ELSE /\ loading' = TRUE
         /\ inflight' = inflight \cup {[id |-> issued + 1, reset |-> reset,
                                        window |-> IF reset THEN 0 ELSE seenOffset]}
         /\ issued' = issued + 1

\* Lines 64-66: the mount effect.
Mount ==
  /\ ~mounted
  /\ mounted' = TRUE
  /\ FetchPage(TRUE)
  /\ UNCHANGED <<items, pageOffset, refreshing, seenLoading, seenOffset, lastFailed>>

\* Lines 68-70: onEndReached
OnEndReached ==
  /\ mounted
  /\ issued < MaxRequests
  /\ ~seenLoading
  /\ FetchPage(FALSE)
  /\ UNCHANGED <<mounted, items, pageOffset, refreshing, seenLoading, seenOffset, lastFailed>>

\* Lines 72-75: onRefresh
OnRefresh ==
  /\ mounted
  /\ issued < MaxRequests
  /\ refreshing' = TRUE
  /\ FetchPage(TRUE)
  /\ UNCHANGED <<mounted, items, pageOffset, seenLoading, seenOffset, lastFailed>>

\* Lines 52-61: the awaited invoke settles; ok = FALSE is an error or a throw,
\* caught and logged at lines 56-57.
Settle ==
  \E r \in inflight, ok \in BOOLEAN :
    /\ inflight' = inflight \ {r}
    /\ IF ok
         THEN /\ items' = IF r.reset THEN <<r.window>> ELSE Append(items, r.window)
              /\ pageOffset' = IF r.reset THEN PAGE_SIZE ELSE pageOffset + PAGE_SIZE
         ELSE UNCHANGED <<items, pageOffset>>
    /\ lastFailed' = IF ok THEN <<>> ELSE <<r>>
    /\ loading' = FALSE
    /\ refreshing' = IF r.reset THEN FALSE ELSE refreshing
    /\ UNCHANGED <<mounted, seenLoading, seenOffset, issued>>

\* React re-renders: the callbacks are rebuilt over the current state
\* (dependency arrays at lines 62, 70, 75).
Render ==
  /\ <<seenLoading, seenOffset>> # <<loading, pageOffset>>
  /\ seenLoading' = loading
  /\ seenOffset' = pageOffset
  /\ UNCHANGED <<mounted, items, pageOffset, loading, refreshing, inflight, issued, lastFailed>>

FeedInit ==
  /\ posts = 0
  /\ likes = <<>>
  /\ PlainStore
  /\ Unranked
  /\ Idle
  /\ Unmounted
  /\ NoStatements
  /\ SignedOut

FeedNext ==
  \/ Mount /\ UNCHANGED <<serverVars, rankVars, rlsVars, gateVars>>
  \/ OnEndReached /\ UNCHANGED <<serverVars, rankVars, rlsVars, gateVars>>
  \/ OnRefresh /\ UNCHANGED <<serverVars, rankVars, rlsVars, gateVars>>
  \/ Settle /\ UNCHANGED <<serverVars, rankVars, rlsVars, gateVars>>
  \/ Render /\ UNCHANGED <<serverVars, rankVars, rlsVars, gateVars>>

FeedSpec == FeedInit /\ [][FeedNext]_vars

\* Every pending invoke settles and every scheduled render happens; the user
\* is free to stop scrolling and refreshing.
FeedFairSpec == FeedSpec /\ WF_vars(Settle /\ UNCHANGED <<serverVars, rankVars, rlsVars, gateVars>>)
                         /\ WF_vars(Render /\ UNCHANGED <<serverVars, rankVars, rlsVars, gateVars>>)

(* -------------------------- ranking function -------------------------- *)
Instants == {k * SecondsPerHour : k \in 0..MaxInstant}

\* preferences jsonb as the settings screen can have stored it.
StoredWeights == Opt({Number(3), NotANumber})
StoredPreferences ==
  [algorithm_id : Opt({"custom"}), like_weight : StoredWeights,
   comment_weight : StoredWeights, follower_weight : StoredWeights,
   recency_weight : StoredWeights]

\* Any store whose posts were inserted one after the other (created_at is the
\* insertion instant, never later than now()), read with the default weights.
AnyStore ==
  /\ posts \in 0..MaxPosts
  /\ likes \in [1..posts -> 0..MaxLikes]
  /\ comments \in [1..posts -> 0..MaxComments]
  /\ followed \in [1..posts -> BOOLEAN]
  /\ created \in {c \in [1..posts -> Instants] :
                    \A i \in 1..posts, j \in 1..posts : i < j => c[i] < c[j]}
  /\ now \in {t \in Instants : \A i \in 1..posts : created[i] <= t}
  /\ prefs = <<>>

\* The store of the documented scenario: P1 is one hour old with 3 likes and an
\* author the requester does not follow, P2 is new with 1 like and a followed
\* author; read under any stored preferences.
ScenarioStore ==
  /\ posts = 2
  /\ likes = <<3, 1>>
  /\ comments = <<0, 0>>
  /\ followed = <<FALSE, TRUE>>
  /\ created = <<0, SecondsPerHour>>
  /\ now = SecondsPerHour
  /\ prefs \in Opt(StoredPreferences)

RankInit ==
  /\ AnyStore \/ ScenarioStore
  /\ Unranked
  /\ Idle
  /\ Unmounted
  /\ NoStatements
  /\ SignedOut

\* One page request at the current instant: the ranking function, the
\* chronological query for the same window, and the algorithm get-feed resolves
\* for the same stored preferences.
Page(p_limit, p_offset) ==
  /\ weights' = LoadedWeights
  /\ call' = [limit |-> p_limit, offset |-> p_offset, at |-> now]
  /\ returned' = RankedFeed(p_limit, p_offset)
  /\ chrono' = ChronologicalPage(Max(p_limit, 0), Max(p_offset, 0))
  /\ algorithmId' = ResolveAlgorithmId(ReadPreferences(prefs, FALSE))

FirstPage ==
  /\ phase = "start"
  /\ \E p_limit \in LimitInputs, p_offset \in OffsetInputs : Page(p_limit, p_offset)
  /\ first' = [call |-> call', rows |-> returned', chrono |-> chrono']
  /\ phase' = "first"
  /\ UNCHANGED <<created, comments, followed, prefs, now>>

\* The wall clock moves on between two requests.
Tick ==
  /\ phase = "first"
  /\ now < MaxInstant * SecondsPerHour
  /\ now' = now + SecondsPerHour
  /\ UNCHANGED <<created, comments, followed, prefs, weights, phase, call, returned,
                 chrono, first, algorithmId>>

\* The next window of the same size.
SecondPage ==
  /\ phase = "first"
  /\ Page(first.call.limit, Max(first.call.offset, 0) + Max(first.call.limit, 0))
  /\ phase' = "second"
  /\ UNCHANGED <<created, comments, followed, prefs, now, first>>

rankFrame == <<pc, posts, likes, token, rawLimit, rawOffset, limit, offset, prefRow,
               prefErr, ran, prefReads, postQueries, outbound, fetchOutcome, sent,
               fetchBody, response>>

RankNext ==
  \/ FirstPage /\ UNCHANGED <<rankFrame, feedVars, rlsVars, gateVars>>
  \/ Tick /\ UNCHANGED <<rankFrame, feedVars, rlsVars, gateVars>>
  \/ SecondPage /\ UNCHANGED <<rankFrame, feedVars, rlsVars, gateVars>>

RankSpec == RankInit /\ [][RankNext]_vars

(* ------------------------------ properties ----------------------------- *)
\* preferences["algorithm_id"] as stored (<<>> = no row, no key, or read error).
StoredAlgorithmId == IF Has(prefRow) THEN Val(prefRow).algorithm_id ELSE <<>>

Answered == pc = "done"
Success == response.kind = "json" /\ response.error = ""

\* What strategies.chronological answers for the current page window.
ChronologicalResponses ==
  {json("", "chronological", ChronologicalPage(limit, offset), 200),
   json("chronological_failed", "", <<>>, 500)}

\* C1: an authenticated request whose stored algorithm_id is missing or is not
\* one of custom / third_party / chronological runs the chronological strategy
\* and is answered with the chronological strategy's response for its window.
C1_UnrecognizedIsChronological ==
  (Answered /\ Authorized(token)
     /\ (~Has(StoredAlgorithmId) \/ Val(StoredAlgorithmId) \notin StrategyNames))
  => (ran = <<"chronological">> /\ response \in ChronologicalResponses)

\* C2: every request ends with one structured JSON response, {posts, algorithm}
\* or {error, ...}; nothing else leaves the handler.
C2_AlwaysStructuredResponse ==
  Answered =>
    /\ response.kind = "json"
    /\ \/ response.error = "" /\ response.algorithm \in StrategyNames
       \/ response.error # "" /\ response.algorithm = ""

\* C3: an authorized request invokes exactly one of the three strategies, and a
\* success response is tagged with the strategy that ran.
C3_ExactlyOneStrategyTagged ==
  (Answered /\ Authorized(token))
  => /\ Len(ran) = 1
     /\ ran[1] \in StrategyNames
     /\ Success => response.algorithm = ran[1]

\* The limit the caller supplied (the query default when none was).
SuppliedLimit == IF Has(rawLimit) THEN Val(rawLimit) ELSE DefaultLimit

\* C4: custom and chronological return at most L items for a limit L >= 0
\* (none for L = 0), and a negative limit behaves as 0.
C4_AtMostLimitItems ==
  (Answered /\ Success /\ response.algorithm \in {"custom", "chronological"})
  => Len(response.posts) <= Max(SuppliedLimit, 0)

\* C5: third_party with an empty or missing endpoint answers 400
\* missing_third_party_endpoint and sends no outbound request.
C5_MissingEndpointNoCall ==
  (ran = <<"third_party">> /\ Endpoint = "")
  => /\ outbound = 0
     /\ pc \in {"third_party", "done"}
     /\ Answered => response = json("missing_third_party_endpoint", "", <<>>, 400)

C5_Witness ==
  /\ Answered /\ ran = <<"third_party">> /\ Endpoint = ""
  /\ response.status = 400 /\ outbound = 0

\* C6: third_party with a non-empty, malformed endpoint answers with the
\* configuration error (400, as for a missing endpoint), not with a transport
\* failure, sends no outbound request and runs no other strategy.
C6_MalformedEndpointIsConfigError ==
  (Answered /\ ran = <<"third_party">> /\ Endpoint # "" /\ ~UrlParses(Endpoint))
  => /\ response = json("missing_third_party_endpoint", "", <<>>, 400)
     /\ outbound = 0

\* C7: a request with a missing or invalid token is answered 401 Unauthorized
\* before the preference record is read, any strategy runs, posts are queried
\* or the third-party endpoint is called.
C7_UnauthorizedBeforeAnything ==
  (pc # "idle" /\ token # "valid")
  => /\ pc \in {"getUser", "done"}
     /\ prefReads = 0 /\ ran = <<>> /\ postQueries = 0 /\ outbound = 0
     /\ Answered => response = json("Unauthorized", "", <<>>, 401)

C7_Witness ==
  Answered /\ token = "invalid" /\ response.status = 401 /\ prefReads = 0

\* C8: a non-success status from the third-party endpoint yields 502, a
\* transport exception yields 500; the endpoint is called at most once per
\* request and no other strategy runs.
C8_UpstreamFailureReportedOnce ==
  /\ outbound <= 1
  /\ (Answered /\ fetchOutcome = "not_ok")
       => response = json("third_party_failed", "", <<>>, 502)
  /\ (Answered /\ fetchOutcome = "throws")
       => response = json("third_party_exception", "", <<>>, 500)
  /\ fetchOutcome # "" => (ran = <<"third_party">> /\ postQueries = 0 /\ outbound = 1)

C8_Witness ==
  Answered /\ fetchOutcome = "not_ok" /\ response.status = 502 /\ outbound = 1

\* C9: a third_party request always completes: once the endpoint has been
\* called, the handler eventually answers even if the endpoint stays silent.
C9_ThirdPartyCompletes == (pc = "fetch") ~> Answered

\* C10: the feed screen never has more than one page request in flight.
C10_SingleFlight == Cardinality(inflight) <= 1

\* C11: a refresh, in whatever state it is issued, starts a new first-page
\* request (offset 0) that will replace the accumulated items.
C11_RefreshStartsFirstPage ==
  [][(OnRefresh /\ UNCHANGED <<serverVars, rankVars, rlsVars, gateVars>>)
       => \E r \in inflight' \ inflight : r.reset /\ r.window = 0]_vars

\* C14: a failed preference read is never surfaced: the request goes on with
\* the defaults (chronological) and its answer is the chronological strategy's.
C14_PrefReadFailureIsSoft ==
  prefErr
  => /\ pc \in {"dispatch", "chronological", "done"}
     /\ algorithmId = "chronological"
     /\ Answered => (ran = <<"chronological">> /\ response \in ChronologicalResponses)

C14_Witness ==
  Answered /\ prefErr /\ Success /\ response.algorithm = "chronological"

\* C20: every pull-to-refresh is eventually followed by refreshing = FALSE,
\* given that every page request settles.
C20_RefreshIndicatorClears == refreshing ~> ~refreshing

\* The offset the caller supplied (the query default when none was).
SuppliedOffset == IF Has(rawOffset) THEN Val(rawOffset) ELSE DefaultOffset

\* C18: the outbound third-party request carries the requester's user id, the
\* clamped limit and offset and the caller's Authorization header unchanged; on
\* a success status the endpoint's body is returned unmodified as posts, tagged
\* third_party.
C18_ThirdPartyPassThrough ==
  /\ outbound = 1
       => sent = <<[endpoint |-> ValidEndpoint, user_id |-> "user-1",
                    limit |-> Max(SuppliedLimit, 0), offset |-> Max(SuppliedOffset, 0),
                    authorization |-> token]>>
  /\ outbound = 0 => sent = <<>>
  /\ (Answered /\ fetchOutcome = "ok")
       => response = json("", "third_party", fetchBody, 200)

C18_Witness ==
  /\ Answered /\ fetchOutcome = "ok" /\ fetchBody # <<>> /\ response.posts = fetchBody
  /\ Has(rawLimit) /\ Val(rawLimit) < 0 /\ Val(sent).limit = 0

(* ------------------------ row level security ------------------------- *)
\* create policy posts_insert_own ... with check (author_id = auth.uid())
posts_insert_own(uid, row) == row.author_id = uid

\* create policy posts_update_own ... using (author_id = auth.uid())
\*                                    with check (author_id = auth.uid())
posts_update_own(uid, row) == row.author_id = uid

RlsViolation == "new row violates row-level security policy"

\* insert({ author_id, text_content }) as user uid: a row failing the policy's
\* with check is rejected with an error.
InsertPost ==
  /\ attempts < MaxAttempts
  /\ Len(postRows) < MaxRows
  /\ \E uid \in Users, author \in Users, text \in Texts :
       LET row == [author_id |-> author, text_content |-> text]
           allowed == posts_insert_own(uid, row)
       IN  /\ postRows' = IF allowed THEN Append(postRows, row) ELSE postRows
           /\ attempt' = [op |-> "insert", user |-> uid, post |-> Len(postRows'),
                          text |-> text, before |-> <<>>,
                          error |-> IF allowed THEN <<>> ELSE <<RlsViolation>>]
  /\ attempts' = attempts + 1

\* tryUpdatePost: update({ text_content }).eq('id', postId) as user uid. The
\* using clause filters the rows the statement can see; a statement that matches
\* no row updates nothing and completes without an error.
UpdatePost ==
  /\ attempts < MaxAttempts
  /\ \E uid \in Users, id \in 1..Len(postRows), text \in Texts :
       LET row == postRows[id]
           new == [row EXCEPT !.text_content = text]
           matched == posts_update_own(uid, row)
           allowed == posts_update_own(uid, new)
       IN  /\ postRows' = IF matched /\ allowed THEN [postRows EXCEPT ![id] = new]
                                                ELSE postRows
           /\ attempt' = [op |-> "update", user |-> uid, post |-> id, text |-> text,
                          before |-> <<row.text_content>>,
                          error |-> IF matched /\ ~allowed THEN <<RlsViolation>> ELSE <<>>]
  /\ attempts' = attempts + 1

RlsInit ==
  /\ posts = 0
  /\ likes = <<>>
  /\ PlainStore
  /\ Unranked
  /\ Idle
  /\ Unmounted
  /\ NoStatements
  /\ SignedOut

RlsNext ==
  \/ InsertPost /\ UNCHANGED <<serverVars, feedVars, rankVars, gateVars>>
  \/ UpdatePost /\ UNCHANGED <<serverVars, feedVars, rankVars, gateVars>>

RlsSpec == RlsInit /\ [][RlsNext]_vars

(* ----------------------------- auth gate ------------------------------ *)
\* useSegments()[0]: the route group of the shown route.
Segment(r) ==
  IF r = LoginRoute THEN "(auth)"
  ELSE IF r \in {FeedRoute, "/(tabs)/settings"} THEN "(tabs)"
  ELSE ""

\* Line 52: isLoggedIn: Boolean(session?.user?.id)
IsLoggedIn == Has(session)

\* Line 86: the values of the effect's dependency array.
Deps == [isLoggedIn |-> IsLoggedIn, isLoading |-> isLoading, segments |-> route]

\* The gate has rendered with values its effect has not run with yet; React
\* runs that effect before it takes the next update.
EffectPending == gateDeps # <<Deps>>

\* A bug: the gate does not wait for the session to be hydrated.
RedirectWhileLoading(hydrating, loggedIn, segment) ==
  IF ~loggedIn /\ segment # "(auth)" THEN <<LoginRoute>>
  ELSE IF loggedIn /\ segment = "(auth)" THEN <<FeedRoute>>
  ELSE <<>>

\* Lines 79-85: the route the effect replaces to, if any.
Redirect(hydrating, loggedIn, segment) ==
  IF hydrating THEN <<>>
  ELSE IF ~loggedIn /\ segment # "(auth)" THEN <<LoginRoute>>
  ELSE IF loggedIn /\ segment = "(auth)" THEN <<FeedRoute>>
  ELSE <<>>

\* Lines 78-86: the gate's effect.
GateEffect ==
  /\ EffectPending
  /\ gateDeps' = <<Deps>>
  /\ replaced' = Redirect(isLoading, IsLoggedIn, Segment(route))
  /\ route' = IF Has(replaced') THEN Val(replaced') ELSE route
  /\ UNCHANGED <<authUser, session, isLoading>>

\* Lines 33-38: getSession() resolves with the session the client holds.
GetSessionResolves ==
  /\ ~EffectPending
  /\ isLoading
  /\ session' = authUser
  /\ isLoading' = FALSE
  /\ UNCHANGED <<authUser, route, gateDeps, replaced>>

\* Lines 40-42: a sign-in reaches the onAuthStateChange listener.
SignIn ==
  /\ ~EffectPending
  /\ ~Has(authUser)
  /\ \E u \in Users : authUser' = <<u>> /\ session' = <<u>>
  /\ UNCHANGED <<isLoading, route, gateDeps, replaced>>

\* Lines 40-42: a sign-out reaches the onAuthStateChange listener.
SignOut ==
  /\ ~EffectPending
  /\ Has(authUser)
  /\ authUser' = <<>>
  /\ session' = <<>>
  /\ UNCHANGED <<isLoading, route, gateDeps, replaced>>

\* The user, a link or a screen navigates to another route.
Navigate ==
  /\ ~EffectPending
  /\ \E r \in Routes \ {route} : route' = r
  /\ UNCHANGED <<authUser, session, isLoading, gateDeps, replaced>>

\* The app starts on any route, with or without a persisted session.
GateInit ==
  /\ posts = 0
  /\ likes = <<>>
  /\ PlainStore
  /\ Unranked
  /\ Idle
  /\ Unmounted
  /\ NoStatements
  /\ authUser \in Opt(Users)
  /\ session = <<>>
  /\ isLoading = TRUE
  /\ route \in Routes
  /\ gateDeps = <<>>
  /\ replaced = <<>>

GateNext ==
  \/ GateEffect /\ UNCHANGED <<serverVars, feedVars, rankVars, rlsVars>>
  \/ GetSessionResolves /\ UNCHANGED <<serverVars, feedVars, rankVars, rlsVars>>
  \/ SignIn /\ UNCHANGED <<serverVars, feedVars, rankVars, rlsVars>>
  \/ SignOut /\ UNCHANGED <<serverVars, feedVars, rankVars, rlsVars>>
  \/ Navigate /\ UNCHANGED <<serverVars, feedVars, rankVars, rlsVars>>

GateSpec == GateInit /\ [][GateNext]_vars

(* ------------------------ ranking properties --------------------------- *)
Ids(rs) == [k \in 1..Len(rs) |-> rs[k].post_id]
Elements(seq) == {seq[k] : k \in 1..Len(seq)}

\* Two pages are disjoint and together make up the first 2w items of an order.
PartitionFirstTwoWindows(page1, page2, order, w) ==
  /\ Elements(page1) \cap Elements(page2) = {}
  /\ Elements(page1) \cup Elements(page2) = {order[k] : k \in 1..Min(2 * w, Len(order))}

DocumentedDefaults == [like_weight |-> 2, comment_weight |-> 1, follower_weight |-> 2,
                       recency_weight |-> 2]

\* C13: without a preference record algorithm_id resolves to chronological and
\* the ranking function uses the documented default weights; a stored record
\* overrides only the keys it contains.
C13_DefaultsAndOverrides ==
  phase # "start"
  => /\ ~Has(prefs) => (algorithmId = "chronological" /\ weights = DocumentedDefaults)
     /\ Has(prefs) =>
          \A key \in DOMAIN DocumentedDefaults :
            LET stored == Val(prefs)[key]
            IN  /\ ~Has(stored) => weights[key] = DocumentedDefaults[key]
                /\ (Has(stored) /\ Val(stored).kind = "number")
                     => weights[key] = Val(stored).value

C13_Witness ==
  /\ phase # "start" /\ Has(prefs)
  /\ Has(Val(prefs).like_weight) /\ Val(Val(prefs).like_weight).kind = "number"
  /\ ~Has(Val(prefs).comment_weight)
  /\ weights.like_weight = 3 /\ weights.comment_weight = 1

\* final_score desc, then created_at desc, read off two returned rows.
RowBefore(a, b) ==
  LET l == a.final_score[1] * b.final_score[2]
      r == b.final_score[1] * a.final_score[2]
  IN  l > r \/ (l = r /\ a.created_at > b.created_at)

\* C15: the custom page is ordered by final_score descending, ties by
\* created_at descending; that order is strict and total, and the page is the
\* slice [offset, offset + limit) of it with every post at most once.
C15_CustomPageIsOrderedSlice ==
  (phase # "start" /\ now = call.at)
  => LET off == Max(call.offset, 0)
         lim == Max(call.limit, 0)
     IN  /\ Len(returned) = Max(0, Min(lim, posts - off))
         /\ \A k \in 1..(Len(returned) - 1) : RowBefore(returned[k], returned[k + 1])
         /\ \A j \in 1..Len(returned), k \in 1..Len(returned) :
              j # k => returned[j].post_id # returned[k].post_id
         /\ \A k \in 1..Len(returned) :
              Cardinality({q \in 1..posts : RowBefore(Row(q), returned[k])}) = off + k - 1
         /\ \A a \in 1..posts, b \in 1..posts :
              a # b => (RowBefore(Row(a), Row(b)) # RowBefore(Row(b), Row(a)))

C15_Witness ==
  /\ phase # "start" /\ now = call.at /\ Len(returned) >= 2
  /\ returned[1].final_score[1] * returned[2].final_score[2]
       = returned[2].final_score[1] * returned[1].final_score[2]
  /\ returned[1].created_at > returned[2].created_at
  /\ returned[1].post_id > returned[2].post_id

\* C16: every returned final_score is like_weight * like_count + comment_weight
\* * comment_count + follower_weight * followed + recency_weight * recency_score;
\* in the documented scenario P1 scores 3.5 (recency 0.5), P2 scores 3.0
\* (recency 1.0) and the order is [P1, P2].
C16_FinalScoreFormula ==
  phase # "start"
  => /\ \A k \in 1..Len(returned) :
          LET r == returned[k]
              engagement == weights.like_weight * r.like_count
                            + weights.comment_weight * r.comment_count
                            + weights.follower_weight * (IF r.is_from_followed THEN 1 ELSE 0)
          IN  r.final_score[1] * (WeightUnit * r.recency_score[2])
                = (engagement * r.recency_score[2]
                   + weights.recency_weight * r.recency_score[1]) * r.final_score[2]
     /\ (ScenarioStore /\ ~Has(prefs) /\ call.at = now /\ call.offset <= 0 /\ call.limit >= 2)
          => /\ Ids(returned) = <<1, 2>>
             /\ 2 * returned[1].recency_score[1] = returned[1].recency_score[2]
             /\ 2 * returned[1].final_score[1] = 7 * returned[1].final_score[2]
             /\ returned[2].recency_score[1] = returned[2].recency_score[2]
             /\ returned[2].final_score[1] = 3 * returned[2].final_score[2]

C16_Witness ==
  /\ phase = "first" /\ ScenarioStore /\ ~Has(prefs)
  /\ call.offset <= 0 /\ call.limit >= 2
  /\ Ids(returned) = <<1, 2>>

\* Returned rows of both calls, each with the age it was scored at.
ScoredAges ==
  {<<first.rows[k], first.call.at - first.rows[k].created_at>> : k \in 1..Len(first.rows)}
  \cup {<<returned[k], call.at - returned[k].created_at>> : k \in 1..Len(returned)}

\* C17: recency_score lies in (0, 1], equals 1 only at age zero, and is
\* strictly smaller for a larger age.
C17_RecencyScoreDecays ==
  phase # "start"
  => /\ \A e \in ScoredAges :
          LET num == e[1].recency_score[1]
              den == e[1].recency_score[2]
          IN  /\ den > 0 /\ num > 0 /\ num <= den
              /\ (num = den) <=> (e[2] = 0)
     /\ \A d \in ScoredAges, e \in ScoredAges :
          d[2] < e[2] => d[1].recency_score[1] * e[1].recency_score[2]
                           > e[1].recency_score[1] * d[1].recency_score[2]

C17_Witness ==
  /\ phase = "second" /\ first.call.at < call.at
  /\ \E d \in ScoredAges, e \in ScoredAges : d[2] = 0 /\ e[2] > SecondsPerHour \div 2

\* C19: a post's text is changed only by an update issued by its author; an
\* update by another user is denied with an error and leaves the post
\* unchanged, and an update by the author succeeds.
C19_OnlyAuthorUpdates ==
  attempt.op = "update"
  => LET row == postRows[attempt.post]
     IN  IF attempt.user = row.author_id
           THEN ~Has(attempt.error) /\ row.text_content = attempt.text
           ELSE Has(attempt.error) /\ row.text_content = Val(attempt.before)

\* C21: between two resets the accumulated items are the pages for the windows
\* 0, 10, 20, ... in order, each once; every page request that is not a reset
\* asks for the next window; offset is 10 times the number of pages appended.
C21_PagesConcatenateInOrder ==
  /\ \A k \in 1..Len(items) : items[k] = (k - 1) * PAGE_SIZE
  /\ pageOffset = PAGE_SIZE * Len(items)
  /\ \A r \in inflight : ~r.reset => r.window = pageOffset

\* C22: a failed page fetch leaves the items and the offset unchanged, sets
\* loading to false and issues no request of its own; the next page request
\* made by onEndReached after a failed onEndReached fetch asks for the same
\* window again.
C22_FailedFetchIsSurfacedOnce ==
  [][/\ (Has(lastFailed') /\ lastFailed' # lastFailed)
          => /\ items' = items
             /\ pageOffset' = pageOffset
             /\ ~loading'
             /\ issued' = issued
             /\ inflight' = inflight \ {Val(lastFailed')}
     /\ (Has(lastFailed) /\ ~Val(lastFailed).reset)
          => \A r \in inflight' \ inflight : ~r.reset => r.window = Val(lastFailed).window]_vars

\* C23: the gate never redirects while the session is loading; once loaded, a
\* logged-out user on a route outside the auth group is sent to the login
\* route, a logged-in user on an auth route is sent to the feed, nothing
\* happens in the other two cases, and a redirect never calls for another.
C23_GateRedirects ==
  /\ isLoading => ~Has(replaced)
  /\ Has(gateDeps)
       => LET last == Val(gateDeps)
              inAuthGroup == Segment(last.segments) = "(auth)"
          IN  /\ last.isLoading => replaced = <<>>
              /\ (~last.isLoading /\ ~last.isLoggedIn /\ ~inAuthGroup)
                   => (replaced = <<"/(auth)/login">> /\ route = "/(auth)/login")
              /\ (~last.isLoading /\ last.isLoggedIn /\ inAuthGroup)
                   => (replaced = <<"/(tabs)/feed">> /\ route = "/(tabs)/feed")
              /\ (~last.isLoading /\ (last.isLoggedIn <=> ~inAuthGroup))
                   => replaced = <<>>
  /\ Has(replaced) => (IsLoggedIn <=> Segment(route) # "(auth)")
  /\ (~isLoading /\ ~EffectPending) => (IsLoggedIn <=> Segment(route) # "(auth)")

C23_Witness ==
  /\ ~isLoading /\ IsLoggedIn
  /\ replaced = <<FeedRoute>> /\ route = FeedRoute
  /\ Val(gateDeps).segments = LoginRoute

====
